---- MODULE Spec2Model ----
(***************************************************************************)
(* Model of mcp_gcal/server.py: the credential lifecycle of                *)
(* get_gcal_credentials and the five MCP tools built on it.                *)
(*                                                                         *)
(* Python's None / "absent" is the empty sequence <<>> and a present value *)
(* v is <<v>>.  A string built by an f-string is the sequence of its       *)
(* fragments.  One tool invocation is one action: the protocol runtime     *)
(* runs one call to completion at a time.                                   *)
(***************************************************************************)
EXTENDS Integers, Sequences, FiniteSets, TLC

VARIABLES
    env,      \* os.environ: the two location variables, each <<>> or <<value>>
    fs,       \* the file system: path -> <<>> (no file) or <<content>>
    now,      \* the wall clock
    issued,   \* number of access tokens the identity provider has issued
    cal,      \* upstream calendar store: calendar id -> set of start times
    inv,      \* the last tool invocation: its name and arguments
    acq,      \* trace of the credential acquisition of the last invocation
    calls,    \* upstream calls made by the last invocation, in order
    ret,      \* <<value>> returned by the last invocation, <<>> if none
    raised    \* <<exception>> propagated by the last invocation, <<>> if none

vars == <<env, fs, now, issued, cal, inv, acq, calls, ret, raised>>

-----------------------------------------------------------------------------
(* Bounds of the model *)

MaxClock == 1
MaxTok == 2
TokenTTL == 1

(* Program constants *)

maxResults == 50

-----------------------------------------------------------------------------
(* Values *)

None == <<>>
Some(v) == <<v>>

\* The relative path the code writes (resolved against the working
\* directory) and another location the environment may name.
CwdTokenPath == "token.json"
OtherTokenPath == "/cfg/mcp-gcal/token.json"
Paths == {CwdTokenPath, OtherTokenPath}
SecretPath == "/cfg/mcp-gcal/credentials.json"

CalIds == {"primary", "a@x.com"}
UnknownCal == "nobody@x.com"

Min(S) == CHOOSE x \in S : \A y \in S : x <= y

RECURSIVE SortedSeq(_)
SortedSeq(S) == IF S = {} THEN <<>>
                ELSE <<Min(S)>> \o SortedSeq(S \ {Min(S)})

Take(s, n) == IF Len(s) <= n THEN s ELSE SubSeq(s, 1, n)

-----------------------------------------------------------------------------
(* google.oauth2.credentials.Credentials as the code uses it *)

Creds(tok, rt, exp) == [token |-> tok, refresh_token |-> rt, expiry |-> exp]

\* creds.expired: an expiry is set and has passed
expired(c, t) == c.expiry # None /\ t >= c.expiry[1]

\* creds.valid: an access token that has not expired
valid(c, t) == c.token # None /\ ~expired(c, t)

\* creds.to_json(): the serialized credential fields
to_json(c) ==
    [kind |-> "json", token |-> c.token, refresh_token |-> c.refresh_token,
     expiry |-> c.expiry]

CorruptFile == [kind |-> "garbage", token |-> None, refresh_token |-> None,
                expiry |-> None]

\* Credentials.from_authorized_user_file: raises ValueError on a file that
\* is not a serialized credential
from_authorized_user_file(content) ==
    IF content.kind = "json"
    THEN [ok |-> TRUE, err |-> "",
          creds |-> Some(Creds(content.token, content.refresh_token,
                               content.expiry))]
    ELSE [ok |-> FALSE, err |-> "ValueError", creds |-> None]

-----------------------------------------------------------------------------
(* get_gcal_credentials *)

\* Variant: the client-secret path is looked up with a default instead of
\* os.environ[...]
ResolveEnv_token_only(e) ==
    IF e.GCAL_TOKEN_PATH = None
    THEN [ok |-> FALSE, err |-> "KeyError: GCAL_TOKEN_PATH"]
    ELSE [ok |-> TRUE, err |-> ""]

\* os.environ[...] for the two variables, token path first; a missing one
\* raises KeyError
ResolveEnv(e) ==
    IF e.GCAL_TOKEN_PATH = None
    THEN [ok |-> FALSE, err |-> "KeyError: GCAL_TOKEN_PATH"]
    ELSE IF e.GCAL_CREDENTIALS_PATH = None
    THEN [ok |-> FALSE, err |-> "KeyError: GCAL_CREDENTIALS_PATH"]
    ELSE [ok |-> TRUE, err |-> ""]

\* The path the credential is saved to
SavePath(e) == CwdTokenPath

\* if os.path.exists(GCAL_TOKEN_PATH): creds = from_authorized_user_file(...)
LoadToken(files, path) ==
    IF files[path] = None
    THEN [ok |-> TRUE, err |-> "", creds |-> None, read |-> FALSE]
    ELSE [ok |-> from_authorized_user_file(files[path][1]).ok,
          err |-> from_authorized_user_file(files[path][1]).err,
          creds |-> from_authorized_user_file(files[path][1]).creds,
          read |-> TRUE]

\* InstalledAppFlow.from_client_secrets_file(...).run_local_server(port=0)
RunFlow(t, flowOk, tok) ==
    IF flowOk
    THEN [ok |-> TRUE, err |-> "",
          creds |-> Some(Creds(Some(tok), Some("rt"), Some(t + TokenTTL)))]
    ELSE [ok |-> FALSE, err |-> "AuthFlowError", creds |-> None]

\* Variant: a rejected refresh is caught and the interactive flow runs
EnsureValid_fall_through(creds, t, refreshOk, flowOk, tok) ==
    IF creds # None /\ valid(creds[1], t)
    THEN [ok |-> TRUE, err |-> "", creds |-> creds, refreshTried |-> FALSE,
          refreshFailed |-> FALSE, flowStarted |-> FALSE, minted |-> FALSE]
    ELSE LET tried == creds # None /\ expired(creds[1], t)
                                   /\ creds[1].refresh_token # None
         IN IF tried /\ refreshOk
            THEN [ok |-> TRUE, err |-> "",
                  creds |-> Some(Creds(Some(tok), creds[1].refresh_token,
                                       Some(t + TokenTTL))),
                  refreshTried |-> TRUE, refreshFailed |-> FALSE,
                  flowStarted |-> FALSE, minted |-> TRUE]
            ELSE [ok |-> RunFlow(t, flowOk, tok).ok,
                  err |-> RunFlow(t, flowOk, tok).err,
                  creds |-> RunFlow(t, flowOk, tok).creds,
                  refreshTried |-> tried, refreshFailed |-> tried,
                  flowStarted |-> TRUE, minted |-> flowOk]

\* The block "if not creds or not creds.valid": refresh an expired
\* credential that has a refresh token, otherwise run the interactive flow.
\* An exception of either propagates.
EnsureValid(creds, t, refreshOk, flowOk, tok) ==
    IF creds # None /\ valid(creds[1], t)
    THEN [ok |-> TRUE, err |-> "", creds |-> creds, refreshTried |-> FALSE,
          refreshFailed |-> FALSE, flowStarted |-> FALSE, minted |-> FALSE]
    ELSE IF creds # None /\ expired(creds[1], t)
                         /\ creds[1].refresh_token # None
    THEN IF refreshOk
         THEN [ok |-> TRUE, err |-> "",
               creds |-> Some(Creds(Some(tok), creds[1].refresh_token,
                                    Some(t + TokenTTL))),
               refreshTried |-> TRUE, refreshFailed |-> FALSE,
               flowStarted |-> FALSE, minted |-> TRUE]
         ELSE [ok |-> FALSE, err |-> "RefreshError", creds |-> None,
               refreshTried |-> TRUE, refreshFailed |-> TRUE,
               flowStarted |-> FALSE, minted |-> FALSE]
    ELSE [ok |-> RunFlow(t, flowOk, tok).ok,
          err |-> RunFlow(t, flowOk, tok).err,
          creds |-> RunFlow(t, flowOk, tok).creds,
          refreshTried |-> FALSE, refreshFailed |-> FALSE,
          flowStarted |-> TRUE, minted |-> flowOk]

NotTried == [refreshTried |-> FALSE, refreshFailed |-> FALSE,
             flowStarted |-> FALSE]

\* An exception leaves get_gcal_credentials before the token is saved
AcqFail(files, err, read, v) ==
    [ok |-> FALSE, err |-> err, creds |-> None, fs |-> files,
     before |-> files, tokenRead |-> read, refreshTried |-> v.refreshTried,
     refreshFailed |-> v.refreshFailed, flowStarted |-> v.flowStarted,
     minted |-> FALSE, wrote |-> None]

\* The whole function: the credential it returns or the exception it
\* raises, the file system it found and the one it leaves, and what it did
\* on the way.
get_gcal_credentials(e, files, t, refreshOk, flowOk, tok) ==
    IF ~ResolveEnv(e).ok
    THEN AcqFail(files, ResolveEnv(e).err, FALSE, NotTried)
    ELSE LET ld == LoadToken(files, e.GCAL_TOKEN_PATH[1]) IN
         IF ~ld.ok
         THEN AcqFail(files, ld.err, TRUE, NotTried)
         ELSE LET v == EnsureValid(ld.creds, t, refreshOk, flowOk, tok) IN
              IF ~v.ok
              THEN AcqFail(files, v.err, ld.read, v)
              ELSE [ok |-> TRUE, err |-> "", creds |-> v.creds,
                    fs |-> [files EXCEPT
                              ![SavePath(e)] = Some(to_json(v.creds[1]))],
                    before |-> files, tokenRead |-> ld.read, refreshTried |-> v.refreshTried,
                    refreshFailed |-> v.refreshFailed,
                    flowStarted |-> v.flowStarted, minted |-> v.minted,
                    wrote |-> Some(SavePath(e))]

-----------------------------------------------------------------------------
(* The tool envelope *)

Dict(result, key, payload) ==
    [kind |-> "dict", result |-> result, key |-> key, payload |-> payload]

Str(text) == [kind |-> "str", text |-> text]

Success == <<"success">>

\* f"An error occurred: {error}"
ErrorResult(err) == <<"An error occurred: ", err>>

Return(v, cs) == [ret |-> Some(v), raised |-> None, calls |-> cs]
Raise(err, cs) == [ret |-> None, raised |-> Some(err), calls |-> cs]

\* Variant: "except HttpError as error"
CatchesHttpErrorOnly(err) == err = "HttpError"

\* "except Exception as error" catches every exception the credential
\* store or the client library throws
Catches(err) == TRUE

\* try: ... except Exception as error: return <handler value>
TryExcept(ok, err, value, handler, cs) ==
    IF ok THEN Return(value, cs)
    ELSE IF Catches(err) THEN Return(handler, cs)
    ELSE Raise(err, cs)

-----------------------------------------------------------------------------
(* The calendar provider, as the client library presents it *)

\* The identity's own calendar is addressed as "primary"
HasCalendar(c) == c \in DOMAIN cal

\* events().list(calendarId, timeMin, maxResults, singleEvents=True,
\* orderBy="startTime").execute()["items"]
EventsList(c, timeMin, limit) ==
    Take(SortedSeq({s \in cal[c] : s >= timeMin}), limit)

\* calendars().get(calendarId).execute()
CalendarTz(c) == IF c = "primary" THEN "America/New_York" ELSE "Asia/Kolkata"
CalendarsGet(c) == [id |-> c, timeZone |-> CalendarTz(c)]

-----------------------------------------------------------------------------
(* retrieve_timezone *)

\* Variant: a failed acquisition is swallowed and the provider is asked
\* without a credential
retrieve_timezone_keeps_going(calendar_id, a, upOk) ==
    LET c == IF calendar_id = None THEN "primary" ELSE calendar_id[1]
        call == [api |-> "calendars.get", calendarId |-> c]
        ok == a.ok /\ upOk /\ HasCalendar(c)
    IN TryExcept(ok, "HttpError",
                 Dict(Success, "response",
                      IF ok THEN Some(CalendarsGet(c)) ELSE None),
                 Dict(ErrorResult("HttpError"), "response", None),
                 <<call>>)

retrieve_timezone(calendar_id, a, upOk) ==
    IF ~a.ok
    THEN TryExcept(FALSE, a.err, None,
                   Dict(ErrorResult(a.err), "response", None), <<>>)
    ELSE LET c == IF calendar_id = None THEN "primary" ELSE calendar_id[1]
             call == [api |-> "calendars.get", calendarId |-> c]
             ok == upOk /\ HasCalendar(c)
         IN TryExcept(ok, "HttpError",
                      Dict(Success, "response",
                           IF ok THEN Some(CalendarsGet(c)) ELSE None),
                      Dict(ErrorResult("HttpError"), "response", None),
                      <<call>>)

-----------------------------------------------------------------------------
(* retrieve_calendar_events *)

\* The calendarId of the events().list call
EventsCalendarId(id) == "primary"

retrieve_calendar_events(id, a, t, upOk) ==
    IF ~a.ok
    THEN TryExcept(FALSE, a.err, None,
                   Dict(ErrorResult(a.err), "events", <<>>), <<>>)
    ELSE LET c == EventsCalendarId(id)
             call == [api |-> "events.list", calendarId |-> c, timeMin |-> t,
                      maxResults |-> maxResults, singleEvents |-> TRUE,
                      orderBy |-> "startTime"]
             ok == upOk /\ HasCalendar(c)
         IN TryExcept(ok, "HttpError",
                      Dict(Success, "events",
                           IF ok THEN EventsList(c, t, maxResults) ELSE <<>>),
                      Dict(ErrorResult("HttpError"), "events", <<>>),
                      <<call>>)

-----------------------------------------------------------------------------
(* retrieve_calendar_free_busy_slots *)

\* freebusy().query(body).execute(): the provider answers a window that is
\* not empty with the busy times of each item
FreeBusyAccepts(q) == q.timeMin < q.timeMax

FreeBusyResponse(q) ==
    [timeMin |-> q.timeMin, timeMax |-> q.timeMax,
     calendars |->
        [i \in 1..Len(q.items) |->
            [id |-> q.items[i].id,
             busy |-> IF HasCalendar(q.items[i].id)
                      THEN SortedSeq({s \in cal[q.items[i].id] :
                                        q.timeMin <= s /\ s < q.timeMax})
                      ELSE <<>>]]]

retrieve_calendar_free_busy_slots(time_min, time_max, timezone, ids, a, upOk) ==
    IF ~a.ok
    THEN TryExcept(FALSE, a.err, None,
                   Dict(ErrorResult(a.err), "response", None), <<>>)
    ELSE LET items == [i \in 1..Len(ids) |-> [id |-> ids[i]]]
             query == [api |-> "freebusy.query", timeMin |-> time_min,
                       timeMax |-> time_max, timeZone |-> timezone,
                       groupExpansionMax |-> 2, calendarExpansionMax |-> 2,
                       items |-> items]
             ok == upOk /\ FreeBusyAccepts(query)
         IN TryExcept(ok, "HttpError",
                      Dict(Success, "response",
                           IF ok THEN Some(FreeBusyResponse(query)) ELSE None),
                      Dict(ErrorResult("HttpError"), "response", None),
                      <<query>>)

-----------------------------------------------------------------------------
(* get_timezone_difference *)

Zones == {"UTC", "Asia/Kolkata", "America/New_York"}

\* dt.astimezone(zoneinfo.ZoneInfo(tz)).utcoffset(), in seconds; New York
\* changes its offset while the clock runs
utcoffset(tz, t) ==
    CASE tz = "UTC" -> 0
      [] tz = "Asia/Kolkata" -> 19800
      [] tz = "America/New_York" -> IF t = 0 THEN -18000 ELSE -14400

\* (tz2_utc - tz1_utc).total_seconds()/3600, as the fraction num/den
Hours(seconds) == [num |-> seconds, den |-> 3600]

\* Variant: an unknown zone is reported under a "success" result
get_timezone_difference_success_shaped(tz1, tz2, t) ==
    LET ok == tz1 \in Zones /\ tz2 \in Zones IN
    TryExcept(ok, "ZoneInfoNotFoundError",
              Dict(Success, "delta",
                   IF ok THEN Some(Hours(utcoffset(tz2, t) - utcoffset(tz1, t)))
                   ELSE None),
              Dict(Success, "delta", None),
              <<>>)

get_timezone_difference(tz1, tz2, t) ==
    LET ok == tz1 \in Zones /\ tz2 \in Zones IN
    TryExcept(ok, "ZoneInfoNotFoundError",
              Dict(Success, "delta",
                   IF ok THEN Some(Hours(utcoffset(tz2, t) - utcoffset(tz1, t)))
                   ELSE None),
              Dict(ErrorResult("ZoneInfoNotFoundError"), "delta", None),
              <<>>)

-----------------------------------------------------------------------------
(* lookup_registry_email *)

\* urllib.parse.quote over the characters of the name
QuoteChar(ch) == IF ch = " " THEN "%20" ELSE ch
quote(name) == [i \in 1..Len(name) |-> QuoteChar(name[i])]

EmailSentinel == <<"Email not found in response">>

\* Variant: the last match instead of the first
FirstEmail_last_match(data) ==
    IF data[Len(data)].email = None THEN EmailSentinel
    ELSE <<data[Len(data)].email[1]>>

\* data[0].get("email", "Email not found in response")
FirstEmail(data) ==
    IF data[1].email = None THEN EmailSentinel ELSE <<data[1].email[1]>>

\* resp: whether requests.get returned at all, the status code, whether
\* response.json() parses, and the parsed list of user records
lookup_registry_email(name, resp) ==
    LET call == [api |-> "registry.search", query |-> quote(name),
                 accept |-> "application/json"]
        out ==
            IF ~resp.sent
            THEN [ok |-> FALSE, err |-> "ConnectionError", v |-> <<>>]
            ELSE IF resp.status = 200
            THEN IF ~resp.parses
                 THEN [ok |-> FALSE, err |-> "JSONDecodeError", v |-> <<>>]
                 ELSE IF Len(resp.data) > 0
                 THEN [ok |-> TRUE, err |-> "", v |-> FirstEmail(resp.data)]
                 ELSE [ok |-> TRUE, err |-> "",
                       v |-> <<"No results found for '", name, "'">>]
            ELSE [ok |-> TRUE, err |-> "",
                  v |-> <<"Error: API returned status code ",
                          ToString(resp.status)>>]
    IN TryExcept(out.ok, out.err, Str(out.v),
                 Str(<<"Error making request: ", out.err>>), <<call>>)

-----------------------------------------------------------------------------
(* Specification *)

EnvChoices ==
    [GCAL_TOKEN_PATH : {None} \cup {Some(p) : p \in Paths},
     GCAL_CREDENTIALS_PATH : {None, Some(SecretPath)}]

NoFiles == [p \in Paths |-> None]

\* A token file left by an earlier run: token 1, expiring at TokenTTL
StoredToken(rt) == to_json(Creds(Some(1), rt, Some(TokenTTL)))

\* Nothing stored yet, or a file at the configured location outside the
\* working directory
FileChoices ==
    {NoFiles}
    \cup {[NoFiles EXCEPT ![OtherTokenPath] = Some(c)] :
            c \in {StoredToken(Some("rt")), StoredToken(None), CorruptFile}}

CalChoices ==
    { [c \in CalIds |-> IF c = "primary" THEN {} ELSE {15}],
      [c \in CalIds |-> IF c = "primary" THEN 10..21 ELSE {1, 12}],
      [c \in CalIds |-> IF c = "primary" THEN 10..61 ELSE {12, 1, 30}] }

NoInv == [tool |-> "none"]

Init ==
    /\ env \in EnvChoices
    /\ fs \in FileChoices
    /\ now = 0
    /\ issued = 1
    /\ cal \in CalChoices
    /\ inv = NoInv
    /\ acq = None
    /\ calls = <<>>
    /\ ret = None
    /\ raised = None

\* Inputs of a credential acquisition: the identity provider issues at
\* most MaxTok tokens
OkChoices == IF issued < MaxTok THEN BOOLEAN ELSE {FALSE}

Acquire(refreshOk, flowOk) ==
    get_gcal_credentials(env, fs, now, refreshOk, flowOk, issued + 1)

\* The provider is asked only once a credential is in hand
UpChoices(a) == IF a.ok THEN BOOLEAN ELSE {FALSE}

Finish(tool, a, r) ==
    /\ inv' = tool
    /\ acq' = Some([a EXCEPT !.fs = None])
    /\ fs' = a.fs
    /\ issued' = IF a.minted THEN issued + 1 ELSE issued
    /\ calls' = r.calls
    /\ ret' = r.ret
    /\ raised' = r.raised
    /\ UNCHANGED <<env, now, cal>>

IdArgs == {None, Some("primary"), Some("a@x.com"), Some(UnknownCal)}

RetrieveTimezone ==
    \E id \in IdArgs, refreshOk \in OkChoices, flowOk \in OkChoices :
        LET a == Acquire(refreshOk, flowOk) IN
        \E upOk \in UpChoices(a) :
        Finish([tool |-> "retrieve_timezone", calendar_id |-> id], a,
               retrieve_timezone(id, a, upOk))

RetrieveCalendarEvents ==
    \E id \in IdArgs, refreshOk \in OkChoices, flowOk \in OkChoices :
        LET a == Acquire(refreshOk, flowOk) IN
        \E upOk \in UpChoices(a) :
        Finish([tool |-> "retrieve_calendar_events", id |-> id], a,
               retrieve_calendar_events(id, a, now, upOk))

\* ISO-8601 instants of the window, as points of the model's time line
Windows == {<<10, 20>>, <<12, 12>>, <<20, 10>>}
IdLists == {<<"primary">>, <<"a@x.com", "primary">>}

RetrieveCalendarFreeBusySlots ==
    \E w \in Windows, ids \in IdLists, refreshOk \in OkChoices,
       flowOk \in OkChoices :
        LET a == Acquire(refreshOk, flowOk) IN
        \E upOk \in UpChoices(a) :
        Finish([tool |-> "retrieve_calendar_free_busy_slots",
                time_min |-> w[1], time_max |-> w[2], timezone |-> "UTC",
                ids |-> ids], a,
               retrieve_calendar_free_busy_slots(w[1], w[2], "UTC", ids, a,
                                                 upOk))

\* A tool that asks for no credential
FinishNoCreds(tool, r) ==
    /\ inv' = tool
    /\ acq' = None
    /\ calls' = r.calls
    /\ ret' = r.ret
    /\ raised' = r.raised
    /\ UNCHANGED <<env, fs, now, issued, cal>>

ZoneArgs == Zones \cup {"Mars/Olympus"}

GetTimezoneDifference ==
    \E tz1 \in ZoneArgs, tz2 \in ZoneArgs :
        FinishNoCreds([tool |-> "get_timezone_difference", tz1 |-> tz1,
                       tz2 |-> tz2, at |-> now],
                      get_timezone_difference(tz1, tz2, now))

Names == {<<"A", "n", "n">>, <<"A", " ", "L">>}

Record(email) == [email |-> email]

Response(sent, status, parses, data) ==
    [sent |-> sent, status |-> status, parses |-> parses, data |-> data]

\* No answer at all; 200 with a list of records; 200 with a body that is
\* not JSON; a status other than 200
Responses ==
    {Response(FALSE, 0, FALSE, <<>>), Response(TRUE, 200, FALSE, <<>>),
     Response(TRUE, 404, TRUE, <<>>), Response(TRUE, 500, FALSE, <<>>)}
    \cup {Response(TRUE, 200, TRUE, d) :
            d \in {<<>>,
                   <<Record(Some("ann@x.com")), Record(Some("ann2@x.com"))>>,
                   <<Record(None), Record(Some("ann@x.com"))>>}}

LookupRegistryEmail ==
    \E name \in Names, resp \in Responses :
        FinishNoCreds([tool |-> "lookup_registry_email", name |-> name,
                       resp |-> resp],
                      lookup_registry_email(name, resp))

Tick ==
    /\ now < MaxClock
    /\ now' = now + 1
    /\ UNCHANGED <<env, fs, issued, cal, inv, acq, calls, ret, raised>>

Next ==
    \/ GetTimezoneDifference
    \/ LookupRegistryEmail
    \/ RetrieveCalendarEvents
    \/ RetrieveCalendarFreeBusySlots
    \/ RetrieveTimezone
    \/ Tick

Spec == Init /\ [][Next]_vars

-----------------------------------------------------------------------------
(* Properties *)

CredTools == {"retrieve_calendar_events", "retrieve_calendar_free_busy_slots",
              "retrieve_timezone"}
DictTools == CredTools \cup {"get_timezone_difference"}

Invoked == inv.tool # "none"
Acquired == acq # None

\* The error state of the envelope: a diagnostic message and no payload
IsErrorEnvelope(r) ==
    /\ r.kind = "dict"
    /\ r.result # Success
    /\ Len(r.result) > 0
    /\ Len(r.payload) = 0

\* What the provider answered to the one call of the invocation
DomainResult ==
    CASE inv.tool = "retrieve_calendar_events" ->
           EventsList(calls[1].calendarId, calls[1].timeMin,
                      calls[1].maxResults)
      [] inv.tool = "retrieve_calendar_free_busy_slots" ->
           Some(FreeBusyResponse(calls[1]))
      [] inv.tool = "retrieve_timezone" ->
           Some(CalendarsGet(calls[1].calendarId))
      [] inv.tool = "get_timezone_difference" ->
           Some(Hours(utcoffset(inv.tz2, inv.at) - utcoffset(inv.tz1, inv.at)))

\* Whether there is an answer to wrap at all
ResultDefined ==
    IF inv.tool = "get_timezone_difference"
    THEN inv.tz1 \in Zones /\ inv.tz2 \in Zones
    ELSE calls # <<>> /\ (inv.tool # "retrieve_calendar_free_busy_slots"
                            => HasCalendar(calls[1].calendarId))

\* The success state of the envelope: no message, the payload is the result
IsSuccessEnvelope(r) ==
    /\ r.kind = "dict"
    /\ r.result = Success
    /\ ResultDefined
    /\ r.payload = DomainResult

TwoState(r) ==
    /\ IsErrorEnvelope(r) \/ IsSuccessEnvelope(r)
    /\ ~(IsErrorEnvelope(r) /\ IsSuccessEnvelope(r))

\* C1 (as claimed): every successful acquisition leaves the token file at
\* the location named by GCAL_TOKEN_PATH holding exactly the credential it
\* returned.
C1_PersistedAtTokenPath ==
    (Acquired /\ acq[1].ok) =>
        fs[env.GCAL_TOKEN_PATH[1]] = Some(to_json(acq[1].creds[1]))

\* C2: when credential acquisition fails, each of the three
\* credential-requiring tools returns an error envelope and makes no
\* upstream call.
C2_AcquireFailureNoUpstream ==
    (inv.tool \in CredTools /\ Acquired /\ ~acq[1].ok) =>
        /\ ret # None
        /\ IsErrorEnvelope(ret[1])
        /\ ret[1].result = ErrorResult(acq[1].err)
        /\ calls = <<>>

C2_Witness ==
    /\ inv.tool = "retrieve_timezone"
    /\ Acquired /\ acq[1].err = "AuthFlowError"
    /\ ret # None /\ calls = <<>>

C4_NeverRaises == Invoked => (raised = None /\ ret # None)

C4_Witness ==
    /\ inv.tool = "retrieve_calendar_events"
    /\ Acquired /\ acq[1].err = "KeyError: GCAL_TOKEN_PATH"
    /\ raised = None /\ ret # None

\* C5 (as claimed): a rejected refresh exchange falls through to the
\* interactive flow, whose outcome is the acquisition's outcome.
C5_RefreshFailureFallsThrough ==
    (Acquired /\ acq[1].refreshFailed) => acq[1].flowStarted

\* C5 (amended): a rejected refresh exchange ends the acquisition with the
\* refresh error: no interactive flow is started, nothing is saved, and the
\* invoking tool returns the error envelope of that error.
C5_RefreshFailureIsTerminal ==
    (Acquired /\ acq[1].refreshFailed) =>
        /\ ~acq[1].ok
        /\ acq[1].err = "RefreshError"
        /\ ~acq[1].flowStarted
        /\ acq[1].wrote = None
        /\ ret # None
        /\ IsErrorEnvelope(ret[1])
        /\ ret[1].result = ErrorResult("RefreshError")

C5_Witness ==
    /\ Acquired /\ acq[1].refreshTried /\ acq[1].refreshFailed
    /\ inv.tool = "retrieve_calendar_free_busy_slots"

EnvMissing ==
    env.GCAL_TOKEN_PATH = None \/ env.GCAL_CREDENTIALS_PATH = None

\* C6: with either location variable absent, an acquisition fails before
\* anything else: no token file is read, no refresh exchange and no
\* interactive flow is started, no token is issued, no upstream call is
\* made, and the file system is left as the acquisition found it.
C6_MissingEnvShortCircuits ==
    (EnvMissing /\ Acquired) =>
        /\ ~acq[1].ok
        /\ ~acq[1].tokenRead
        /\ ~acq[1].refreshTried
        /\ ~acq[1].flowStarted
        /\ ~acq[1].minted
        /\ acq[1].wrote = None
        /\ calls = <<>>
        /\ fs = acq[1].before

C6_Witness ==
    /\ env.GCAL_TOKEN_PATH # None
    /\ env.GCAL_CREDENTIALS_PATH = None
    /\ fs[env.GCAL_TOKEN_PATH[1]] # None
    /\ Acquired /\ acq[1].err = "KeyError: GCAL_CREDENTIALS_PATH"

Ascending(s) == \A i \in 1..(Len(s) - 1) : s[i] <= s[i + 1]

\* C7 (as claimed): a successful upcoming-events call returns at most 10
\* items, in ascending start-time order.
C7_AtMostTenAscending ==
    (inv.tool = "retrieve_calendar_events" /\ ret # None
        /\ ret[1].result = Success) =>
        (Len(ret[1].payload) <= 10 /\ Ascending(ret[1].payload))

\* C8 (as claimed): the listing call is issued for the calendar id the
\* caller supplied, and for "primary" only when the argument is omitted.
C8_ListsRequestedCalendar ==
    (inv.tool = "retrieve_calendar_events" /\ calls # <<>>) =>
        calls[1].calendarId =
            (IF inv.id = None THEN "primary" ELSE inv.id[1])

\* C9 (as claimed): an upstream free/busy call is only ever made for a
\* window with time_min < time_max.
C9_NoCallForEmptyWindow ==
    \A i \in 1..Len(calls) :
        calls[i].api = "freebusy.query" => calls[i].timeMin < calls[i].timeMax

ErrorPrefixes == {"Error: API returned status code ", "Error making request: "}

====
